---- MODULE Spec2Model ----
(***************************************************************************)
(* A model of the Slack / Jira KBA bot: the per-thread conversation        *)
(* workflow (src/src/workflows/kba-generator.ts), the Bolt event handlers  *)
(* that drive it (src/src/index.ts), the ticket reference parser           *)
(* (src/src/services/jira.service.ts) and the image batch                  *)
(* (src/src/services/openai.service.ts).                                   *)
(*                                                                         *)
(* The bot runs on one JavaScript event loop.  A handler runs without      *)
(* interruption from one `await` to the next; at every `await` on an       *)
(* external call any other handler may run.  Every action below is one     *)
(* such run-to-completion segment of one handler invocation (a "task").    *)
(* A context is a JavaScript object: handlers keep references to it in     *)
(* local variables across awaits, so the model keeps a heap of context     *)
(* objects and a map from thread key to object reference.                  *)
(***************************************************************************)
EXTENDS Integers, Sequences, FiniteSets, TLC

VARIABLES
    ctxMap,     \* KBAGeneratorWorkflow.contexts: thread key -> object ref (0 = absent)
    heap,       \* the ConversationContext objects ever allocated
    tasks,      \* handler invocations: position and local variables
    timers,     \* pending setTimeout cleanups per thread key
    nEvents,    \* inbound events delivered so far
    lastEnd,    \* the invocation the latest segment ended, if it ended one
    img,        \* the image batch under study (specification SpecImages)
    parsed,     \* the text under study and its ticket key (SpecParse)
    page        \* the Confluence page operation under study (SpecPage)

vars == <<ctxMap, heap, tasks, timers, nEvents, lastEnd, img, parsed, page>>

-----------------------------------------------------------------------------
(* Bounds of the model *)

MaxEvents == 3          \* inbound events taken up by a handler, per behaviour
MaxInFlight == 2        \* handler invocations suspended at the same time
MaxQuestions == 2       \* clarifying questions returned by the model
MaxSteps == 2           \* steps of a generated content (SpecImages)
MaxLen == 4             \* characters of a text after its prefix (SpecParse)

Keys == {"k1"}    \* thread keys `${channel}-${threadTs}`
TaskIds == 1..MaxEvents
Refs == 1..MaxEvents    \* every context object is created by one start event

-----------------------------------------------------------------------------
(* Strings are sequences of one-character strings. *)

Upper == {"A", "B", "C", "D", "E", "F", "G", "H", "I", "J", "K", "L", "M",
          "N", "O", "P", "Q", "R", "S", "T", "U", "V", "W", "X", "Y", "Z"}
Digit == {"0", "1", "2", "3", "4", "5", "6", "7", "8", "9"}

NoMatch == <<>>         \* the null of extractTicketKey
BrowsePath == <<"/", "b", "r", "o", "w", "s", "e", "/">>
BrowseWord == <<"b", "r", "o", "w", "s", "e", "/">>
JiraHost == <<"h">>     \* process.env.JIRA_HOST

\* String.prototype.includes
Includes(s, sub) ==
    \E i \in 1..(Len(s) - Len(sub) + 1) : SubSeq(s, i, i + Len(sub) - 1) = sub

\* Last index of the maximal run of characters of class S that starts at i
\* (i - 1 when s[i] is not in S): a greedy `+` / `*`.
RECURSIVE RunEnd(_, _, _)
RunEnd(s, i, S) ==
    IF i <= Len(s) /\ s[i] \in S THEN RunEnd(s, i + 1, S) ELSE i - 1

\* [A-Z]+-\d+ anchored at i: index of the last matched character, 0 if no match.
\* Backtracking into [A-Z]+ cannot help: a shorter run is followed by a letter.
MatchKeyAt(s, i) ==
    LET j == RunEnd(s, i, Upper)
    IN  IF j >= i /\ j + 2 <= Len(s) /\ s[j + 1] = "-" /\ s[j + 2] \in Digit
        THEN RunEnd(s, j + 2, Digit)
        ELSE 0

Min(S) == CHOOSE x \in S : \A y \in S : x <= y

\* A first pattern that never matches: only the browse/ pattern is left.
NoSimplePattern(s) == NoMatch

\* text.match(/([A-Z]+-\d+)/): group 1 of the leftmost match
SimpleKeyPattern(s) ==
    LET starts == {i \in 1..Len(s) : MatchKeyAt(s, i) # 0}
    IN  IF starts = {} THEN NoMatch
        ELSE SubSeq(s, Min(starts), MatchKeyAt(s, Min(starts)))

\* text.match(/browse\/([A-Z]+-\d+)/): group 1 of the leftmost match
BrowseKeyPattern(s) ==
    LET starts == {i \in 1..Len(s) :
                      /\ i + Len(BrowseWord) - 1 <= Len(s)
                      /\ SubSeq(s, i, i + Len(BrowseWord) - 1) = BrowseWord
                      /\ MatchKeyAt(s, i + Len(BrowseWord)) # 0}
    IN  IF starts = {} THEN NoMatch
        ELSE SubSeq(s, Min(starts) + Len(BrowseWord),
                    MatchKeyAt(s, Min(starts) + Len(BrowseWord)))

\* The two patterns tried in the opposite order.
ExtractTicketKeyUrlFirst(s) ==
    IF BrowseKeyPattern(s) # NoMatch THEN BrowseKeyPattern(s)
    ELSE SimpleKeyPattern(s)

\* JiraService.extractTicketKey
ExtractTicketKey(s) ==
    IF SimpleKeyPattern(s) # NoMatch THEN SimpleKeyPattern(s)
    ELSE BrowseKeyPattern(s)

\* The texts inbound events carry in the workflow specification: a bare key,
\* a ticket URL with the key cut off, and plain chatter.
KeyText == <<"T", "-", "4">>
UrlOnlyText == JiraHost \o BrowsePath
PlainText == <<"o", "k">>
Texts == {KeyText, UrlOnlyText, PlainText}

\* What the handlers compute from an event's text, tabulated over Texts.
TicketKeyOf == [x \in Texts |-> ExtractTicketKey(x)]
HasJiraUrl == [x \in Texts |-> Includes(x, JiraHost) /\ Includes(x, BrowsePath)]

-----------------------------------------------------------------------------
(* Generated content and the image batch (OpenAIService.generateImages) *)

OsTags == {"none", "mac", "windows", "both"}    \* "none": osType absent
Platforms == {"mac", "windows"}
RenderOutcomes == {"url", "nourl", "throw"}     \* of one images.generate call

\* A KBAStep: whether it carries an imagePrompt, and its osType.  The step
\* number of the i-th step is i.
Steps == [prompt : BOOLEAN, osType : OsTags]

SeqsUpTo(S, n) == UNION {[1..k -> S] : k \in 0..n}

\* The outcome of every render call a batch could make, fixed in advance:
\* (step number, platform) -> outcome.
OutcomesFor(content) == [(1..Len(content)) \X Platforms -> RenderOutcomes]

\* A platform list that renders a step tagged both for one platform only.
OsTypesOfFirst(step) ==
    IF step.osType = "both" THEN <<"mac">> ELSE <<step.osType>>

\* const osTypes = step.osType === 'both' ? ['mac', 'windows'] : [step.osType]
OsTypesOf(step) ==
    IF step.osType = "both" THEN <<"mac", "windows">> ELSE <<step.osType>>

\* The inner `for (const os of osTypes)` from position j on, inside the try
\* block: a throwing render call leaves the loop (and skips the delay).
RECURSIVE OsLoop(_, _, _, _)
OsLoop(i, osTypes, j, oc) ==
    IF j > Len(osTypes) THEN [images |-> <<>>, trace |-> <<>>, threw |-> FALSE]
    ELSE LET os == osTypes[j]
             req == <<"render", i, os>>
         IN  IF oc[<<i, os>>] = "throw"
             THEN [images |-> <<>>, trace |-> <<req>>, threw |-> TRUE]
             ELSE LET rest == OsLoop(i, osTypes, j + 1, oc)
                      got == IF oc[<<i, os>>] = "url"
                             THEN <<[stepNumber |-> i, osType |-> os]>>
                             ELSE <<>>
                  IN  [images |-> got \o rest.images,
                       trace |-> <<req>> \o rest.trace,
                       threw |-> rest.threw]

\* One iteration of `for (const step of content.steps)`: the images pushed
\* and the calls made (render requests and the pacing delay).
StepRun(content, i, oc) ==
    LET step == content[i]
    IN  IF step.prompt /\ step.osType # "none"
        THEN LET r == OsLoop(i, OsTypesOf(step), 1, oc)
             IN  [images |-> r.images,
                  trace |-> IF r.threw THEN r.trace ELSE r.trace \o <<<<"delay">>>>]
        ELSE [images |-> <<>>, trace |-> <<>>]

RECURSIVE StepsLoop(_, _, _)
StepsLoop(content, i, oc) ==
    IF i > Len(content) THEN [images |-> <<>>, trace |-> <<>>]
    ELSE LET a == StepRun(content, i, oc)
             b == StepsLoop(content, i + 1, oc)
         IN  [images |-> a.images \o b.images, trace |-> a.trace \o b.trace]

\* generateImages without its per-step try/catch: a throwing render call
\* rejects the batch.
GenerateImagesUncaught(content, oc) ==
    LET r == StepsLoop(content, 1, oc)
    IN  [images |-> r.images, trace |-> r.trace,
         threw |-> \E j \in 1..Len(r.trace) :
                      /\ r.trace[j][1] = "render"
                      /\ oc[<<r.trace[j][2], r.trace[j][3]>>] = "throw"]

\* OpenAIService.generateImages: the image list returned, the calls made, and
\* whether the batch rejected (it never does: every throw is caught per step).
GenerateImages(content, oc) ==
    LET r == StepsLoop(content, 1, oc)
    IN  [images |-> r.images, trace |-> r.trace, threw |-> FALSE]

\* content.steps.filter(s => s.imagePrompt)
StepsWithImages(content) == {i \in 1..Len(content) : content[i].prompt}

-----------------------------------------------------------------------------
(* The state of the workflow *)

Stages == {"analyzing", "asking_questions", "generating", "review", "complete"}

\* A slot of the heap no context object occupies yet.
NoObj == [stage |-> "unallocated", nq |-> 0, userAnswers |-> <<>>, draft |-> <<>>,
          genCalls |-> 0, changes |-> 0, pubFails |-> 0, cancelled |-> FALSE,
          published |-> FALSE]

\* `const context: ConversationContext = {... stage: 'analyzing',
\*  questionsAsked: [], userAnswers: {}}`; kbaDraft is absent (<<>>).
\* questionsAsked is kept as its length nq.  genCalls, changes, pubFails,
\* cancelled and published are history: the generation passes begun on the
\* object, the request-changes transitions applied to it, the createKBAPage
\* calls that rejected for it, whether cancelKBA removed it from the map, and
\* whether a createKBAPage call resolved for it.
NewContext == [stage |-> "analyzing", nq |-> 0, userAnswers |-> <<>>, draft |-> <<>>,
               genCalls |-> 0, changes |-> 0, pubFails |-> 0, cancelled |-> FALSE,
               published |-> FALSE]

\* A handler invocation: where it is suspended (pc) and its local variables.
\*   key      contextKey
\*   ctx      the local `context` reference (0: none)
\*   root     the workflow operation the handler entered (generateKBA runs
\*            inside startWorkflow's try block or inside handleAnswer)
\*   text     the event's text, while still needed
\*   content  the local `content` of generateKBA
\*   draft    the local `kbaDraft` of approveAndPublish
\*   cause    history: the collaborator call whose failure was thrown
\*   seen     history: the context the map held for the key when a start
\*            event arrived (0: none)
\*   remaining  the local `remaining` of handleAnswer, as its message shows it
Idle == [pc |-> "idle", key |-> "none", ctx |-> 0, root |-> "none", text |-> <<>>,
         content |-> <<>>, draft |-> <<>>, cause |-> "none", seen |-> 0,
         remaining |-> 0]

\* An invocation ends: it returned, or it rejected (threw to Bolt).
Ended(task, how) == [task EXCEPT !.pc = how]

\* A handler that answers an event it does not act on with a post.
IgnoredWithReply(root, k) ==
    [Idle EXCEPT !.pc = "an_remaining", !.root = "answer", !.key = k]

\* An event of operation `root` for thread k whose handler returns at once.
Ignored(root, k) == [Idle EXCEPT !.pc = "returned", !.root = root, !.key = k]

Finished == {"returned", "threw"}
InFlight(t) == tasks[t].pc \notin {"idle", "done"}

\* The objects still reachable: from the map, or from a local variable of a
\* suspended invocation.  The others are garbage and leave the heap.
Live(m, ts) ==
    {m[k] : k \in DOMAIN m} \cup {ts[t].ctx : t \in DOMAIN ts}

Init ==
    /\ ctxMap = [k \in Keys |-> 0]
    /\ heap = [o \in Refs |-> NoObj]
    /\ tasks = [t \in TaskIds |-> Idle]
    /\ timers = [k \in Keys |-> 0]
    /\ nEvents = 0
    /\ lastEnd = Idle
    /\ img = <<>>
    /\ parsed = <<>>
    /\ page = <<>>

\* How a segment's external calls settle.  Two awaits with only local
\* computation between them are one segment: no other handler can tell the
\* point between them from the point before.  "ok": every call resolved;
\* "post_fail": an outbound message post rejected; "call_fail": the
\* collaborator call (fetch, questions, content, publish) rejected;
\* "say_fail": the handler's own say() rejected.
PostOutcomes == {"ok", "post_fail"}
CallOutcomes == {"ok", "post_fail", "call_fail"}

\* An inbound event is delivered.  A handler that suspends becomes invocation
\* t, the next free slot; a handler that returns at once without suspending
\* occupies none, so MaxEvents bounds the events that are taken up.
Arrives(t) ==
    /\ nEvents < MaxEvents
    /\ Cardinality({u \in TaskIds : InFlight(u)}) < MaxInFlight
    /\ t = nEvents + 1

\* A segment's effect: the new map, the new heap and the invocation's new
\* state.  When the segment ends the invocation, lastEnd is the invocation as
\* it ended (its locals, and "returned" or "threw" for its pc); the slot
\* itself keeps nothing of it.
Apply(t, r) ==
    \E e \in {r} :
        LET over == e.task.pc \in Finished
            fresh == tasks[t].pc = "idle"
            ts == [tasks EXCEPT ![t] = IF over
                                       THEN IF fresh THEN Idle
                                            ELSE [Idle EXCEPT !.pc = "done"]
                                       ELSE e.task]
        IN  /\ ctxMap' = e.map
            /\ tasks' = ts
            /\ heap' = [o \in Refs |-> IF o \in Live(e.map, ts) THEN e.heap[o]
                                        ELSE NoObj]
            /\ lastEnd' = IF over THEN e.task ELSE Idle
            /\ nEvents' = IF fresh /\ ~over THEN nEvents + 1 ELSE nEvents

Same(task) == [map |-> ctxMap, heap |-> heap, task |-> task]

-----------------------------------------------------------------------------
(* KBAGeneratorWorkflow: the synchronous entry segments of its operations *)

\* An answer key that does not depend on the answers already stored.
AnswerSlotFixed(ua) == 1

\* const answerKey = `answer_${Object.keys(context.userAnswers).length + 1}`
AnswerSlot(ua) == Cardinality(DOMAIN ua) + 1

\* A store that replaces the answers instead of adding to them.
StoreAnswerOnly(ua, slot, answer) == [i \in {slot} |-> answer]

\* context.userAnswers[answerKey] = answer
StoreAnswer(ua, slot, answer) ==
    [i \in (DOMAIN ua) \cup {slot} |-> IF i = slot THEN answer ELSE ua[i]]

\* A completion test that asks for exactly as many answers as questions.
ExactlyEnoughAnswers(c) == Cardinality(DOMAIN c.userAnswers) = c.nq

\* const remaining = questionsAsked.length - Object.keys(userAnswers).length
Remaining(c) == c.nq - Cardinality(DOMAIN c.userAnswers)

\* Object.keys(context.userAnswers).length >= context.questionsAsked.length
EnoughAnswers(c) == Cardinality(DOMAIN c.userAnswers) >= c.nq

\* The guard of handleAnswer: `!context || context.stage !== 'asking_questions'`
AnswerIgnored(m, h, k) == m[k] = 0 \/ h[m[k]].stage # "asking_questions"

\* handleAnswer up to its first await.  The answer stored is the text of the
\* event; the model writes it as the number of the event that carried it.
HandleAnswer(k, answer) ==
    IF AnswerIgnored(ctxMap, heap, k) THEN Same(Ignored("answer", k))
    ELSE LET c == ctxMap[k]
             ua == StoreAnswer(heap[c].userAnswers,
                               AnswerSlot(heap[c].userAnswers), answer)
             h == [heap EXCEPT ![c].userAnswers = ua]
         IN  [map |-> [ctxMap EXCEPT ![k] = c],
              heap |-> h,
              task |-> IF EnoughAnswers(h[c])
                       THEN [Idle EXCEPT !.key = k, !.root = "answer",
                                         !.pc = "an_thanks"]
                       ELSE [Idle EXCEPT !.key = k, !.root = "answer",
                                         !.pc = "an_remaining",
                                         !.remaining = Remaining(h[c])]]

\* The guard of generateKBA: `!context || !context.jiraTicket` (a context
\* always carries its ticket: startWorkflow creates it with the fetched one).
GenerateSkipped(m, k) == m[k] = 0

\* generateKBA up to its first await, entered by invocation `task` with the
\* map m and heap h its caller leaves: the local `context` is whatever object
\* the map holds for the key at that moment.
GenerateKBA(task, m, h) ==
    LET k == task.key
        c == m[k]
    IN  IF GenerateSkipped(m, k)
        THEN [map |-> m, heap |-> h, task |-> Ended(task, "returned")]
        ELSE [map |-> [m EXCEPT ![k] = c],
              heap |-> [h EXCEPT ![c].stage = "generating",
                                 ![c].genCalls = @ + 1],
              task |-> [task EXCEPT !.pc = "gen_content", !.ctx = c]]

\* The guard of showPreview: `!context || !context.kbaDraft`
PreviewSkipped(m, h, k) == m[k] = 0 \/ h[m[k]].draft = <<>>

\* The end of generateKBA's try block once the images are known: attach the
\* draft, set stage review, put the context into the map, enter showPreview.
AttachDraft(task, images) ==
    LET k == task.key
        c == task.ctx
        d == [content |-> task.content, images |-> images]
        h == [heap EXCEPT ![c].draft = <<d>>, ![c].stage = "review"]
        m == [ctxMap EXCEPT ![k] = c]
    IN  [map |-> m, heap |-> h,
         task |-> IF PreviewSkipped(m, h, k) THEN Ended(task, "returned")
                  ELSE [task EXCEPT !.pc = "pv_post", !.content = <<>>]]

\* A rejected call inside a try block: control moves to the catch clause.
Catch(task, pc, cause) ==
    [task EXCEPT !.pc = pc, !.cause = IF @ = "none" THEN cause ELSE @]

\* A guard of approveAndPublish that does not look for the draft.
ApproveIgnoredNoDraft(m, h, k) == m[k] = 0

\* The guard of approveAndPublish: `!context || !context.kbaDraft`
ApproveIgnored(m, h, k) == m[k] = 0 \/ h[m[k]].draft = <<>>

-----------------------------------------------------------------------------
(* Inbound events (src/src/index.ts): each handler up to its first await *)

\* app.message: a text message in thread k.
MessageEvent(t, k, text) ==
    /\ Arrives(t)
    /\ LET hasJiraUrl == HasJiraUrl[text]
           ticketKey == TicketKeyOf[text]
           c == ctxMap[k]
       IN  Apply(t,
             IF hasJiraUrl \/ ticketKey # NoMatch
             THEN IF c = 0
                  THEN Same([Idle EXCEPT !.pc = "st_analyzing", !.key = k,
                                         !.root = "start", !.text = text])
                  ELSE IF heap[c].stage = "asking_questions"
                       THEN HandleAnswer(k, t)
                       ELSE Same(Ignored("message", k))
             ELSE IF c # 0 /\ heap[c].stage = "asking_questions"
                  THEN HandleAnswer(k, t)
                  ELSE Same(Ignored("message", k)))
    /\ UNCHANGED <<timers, img, parsed, page>>

\* app.event('app_mention'): the bot is mentioned in thread k.  Without a
\* ticket key the handler only posts the usage hint.
MentionEvent(t, k, text) ==
    /\ Arrives(t)
    /\ Apply(t, IF TicketKeyOf[text] # NoMatch
                THEN Same([Idle EXCEPT !.pc = "st_analyzing", !.key = k,
                                       !.root = "start", !.text = text,
                                       !.seen = ctxMap[k]])
                ELSE Same(Ignored("mention", k)))
    /\ UNCHANGED <<timers, img, parsed, page>>

\* app.action('approve_kba'): ack and chat.update touch no state, so the
\* event is taken up where approveAndPublish is called.
ApproveEvent(t, k) ==
    /\ Arrives(t)
    /\ Apply(t, IF ApproveIgnored(ctxMap, heap, k) THEN Same(Ignored("approve", k))
                ELSE Same([Idle EXCEPT !.pc = "ap_publish", !.key = k,
                                       !.root = "approve", !.ctx = ctxMap[k],
                                       !.draft = heap[ctxMap[k]].draft]))
    /\ UNCHANGED <<timers, img, parsed, page>>

\* app.action('request_changes'), taken up where requestChanges is called.
RequestChangesEvent(t, k) ==
    /\ Arrives(t)
    /\ Apply(t, IF ctxMap[k] = 0 THEN Same(Ignored("request_changes", k))
                ELSE Same([Idle EXCEPT !.pc = "rc_post", !.key = k,
                                       !.root = "request_changes",
                                       !.ctx = ctxMap[k]]))
    /\ UNCHANGED <<timers, img, parsed, page>>

\* app.action('cancel_kba'), taken up where cancelKBA is called.
CancelEvent(t, k) ==
    /\ Arrives(t)
    /\ Apply(t, IF ctxMap[k] = 0 THEN Same(Ignored("cancel", k))
                ELSE Same([Idle EXCEPT !.pc = "cx_post", !.key = k,
                                       !.root = "cancel"]))
    /\ UNCHANGED <<timers, img, parsed, page>>

-----------------------------------------------------------------------------
(* startWorkflow *)

\* `await say(...)` of the message / mention handler, then startWorkflow:
\* sendMessage(':mag: Analyzing Jira ticket...') and extractTicketKey.  A
\* rejected say ends the handler before startWorkflow is called.
StartParse(t, r) ==
    /\ tasks[t].pc = "st_analyzing"
    /\ Apply(t, Same(IF r = "say_fail" THEN Ended(tasks[t], "threw")
                     ELSE IF r = "post_fail"
                          THEN Catch(tasks[t], "st_catch", "post")
                          ELSE IF TicketKeyOf[tasks[t].text] = NoMatch
                               THEN [tasks[t] EXCEPT !.pc = "st_nokey"]
                               ELSE [tasks[t] EXCEPT !.pc = "st_fetch"]))
    /\ UNCHANGED <<timers, img, parsed, page>>

\* sendMessage(':x: Could not extract Jira ticket key ...') settles; return.
StartNoKey(t, r) ==
    /\ tasks[t].pc = "st_nokey"
    /\ Apply(t, Same(IF r = "post_fail" THEN Catch(tasks[t], "st_catch", "post")
                     ELSE Ended(tasks[t], "returned")))
    /\ UNCHANGED <<timers, img, parsed, page>>

\* The context startWorkflow creates once getTicket has resolved.  Invocation
\* t allocates heap slot t.
CreateContext(t, m, h) ==
    [map |-> [m EXCEPT ![tasks[t].key] = t],
     heap |-> [h EXCEPT ![t] = NewContext],
     task |-> [tasks[t] EXCEPT !.pc = "st_questions", !.ctx = t, !.text = <<>>]]

\* jiraService.getTicket resolves or rejects (not found, transport).
StartFetched(t, r) ==
    /\ tasks[t].pc = "st_fetch"
    /\ Apply(t, IF r = "call_fail" THEN Same(Catch(tasks[t], "st_catch", "fetch"))
                ELSE CreateContext(t, ctxMap, heap))
    /\ UNCHANGED <<timers, img, parsed, page>>

\* startWorkflow without the zero-questions shortcut.
NeverSkipQuestions(n) == FALSE

\* `questions.length === 0`: no questions needed, go straight to generateKBA.
SkipQuestions(n) == n = 0

\* generateClarifyingQuestions resolved with n questions: lines 71-88 up to
\* the next await.
QuestionsReturned(t, n) ==
    LET k == tasks[t].key
        c == tasks[t].ctx
        h == [heap EXCEPT ![c].nq = n, ![c].stage = "asking_questions"]
        m == [ctxMap EXCEPT ![k] = c]
    IN  IF SkipQuestions(n) THEN GenerateKBA(tasks[t], m, h)
        ELSE [map |-> m, heap |-> h, task |-> [tasks[t] EXCEPT !.pc = "st_ask"]]

\* sendMessage(':white_check_mark: Found ticket ...') and then
\* generateClarifyingQuestions settle.
StartQuestions(t, r, n) ==
    /\ tasks[t].pc = "st_questions"
    /\ r # "ok" => n = 0
    /\ Apply(t, IF r = "post_fail" THEN Same(Catch(tasks[t], "st_catch", "post"))
                ELSE IF r = "call_fail"
                     THEN Same(Catch(tasks[t], "st_catch", "questions"))
                     ELSE QuestionsReturned(t, n))
    /\ UNCHANGED <<timers, img, parsed, page>>

\* sendMessage(':question: I need some additional information ...') settles.
StartAsked(t, r) ==
    /\ tasks[t].pc = "st_ask"
    /\ Apply(t, Same(IF r = "post_fail" THEN Catch(tasks[t], "st_catch", "post")
                     ELSE Ended(tasks[t], "returned")))
    /\ UNCHANGED <<timers, img, parsed, page>>

\* A catch clause of startWorkflow that forgets the delete.
StartCatchKeeps(m, k) == m

\* The catch clause of startWorkflow once its sendMessage has resolved:
\* this.contexts.delete(contextKey).
StartCatchMap(m, k) == [m EXCEPT ![k] = 0]

\* catch: sendMessage(`:x: Error: ...`), then the delete.  When that
\* sendMessage rejects, startWorkflow rejects and the delete never runs.
StartCatch(t, r) ==
    /\ tasks[t].pc = "st_catch"
    /\ Apply(t, IF r = "post_fail" THEN Same(Ended(tasks[t], "threw"))
                ELSE [map |-> StartCatchMap(ctxMap, tasks[t].key), heap |-> heap,
                      task |-> Ended(tasks[t], "returned")])
    /\ UNCHANGED <<timers, img, parsed, page>>

-----------------------------------------------------------------------------
(* handleAnswer and generateKBA *)

\* sendMessage(':white_check_mark: Thank you! ...') settles; generateKBA is
\* entered.  handleAnswer has no try block: a rejection leaves the handler.
AnswerThanked(t, r) ==
    /\ tasks[t].pc = "an_thanks"
    /\ Apply(t, IF r = "post_fail" THEN Same(Ended(tasks[t], "threw"))
                ELSE GenerateKBA(tasks[t], ctxMap, heap))
    /\ UNCHANGED <<timers, img, parsed, page>>

\* sendMessage(`Got it! ${remaining} more question(s) remaining.`) settles.
AnswerCounted(t, r) ==
    /\ tasks[t].pc = "an_remaining"
    /\ Apply(t, Same(Ended(tasks[t], IF r = "post_fail" THEN "threw" ELSE "returned")))
    /\ UNCHANGED <<timers, img, parsed, page>>

\* The contents generateKBAContent returns in the workflow specification: one
\* without steps and one whose single step carries an image prompt.  (Every
\* content up to MaxSteps steps is run through the batch in SpecImages.)
WorkflowContents == {<<>>, <<[prompt |-> TRUE, osType |-> "mac"]>>}

\* The content is known: with no image prompts the draft is attached at once.
ContentReturned(task, content) ==
    IF StepsWithImages(content) # {}
    THEN Same([task EXCEPT !.pc = "gen_images", !.content = content])
    ELSE AttachDraft([task EXCEPT !.content = content], <<>>)

\* sendMessage(':pencil: Generating KBA content...') and then
\* generateKBAContent settle: it resolves with `content`, or rejects (the API
\* call, or JSON.parse of its answer).
GenContent(t, r, content) ==
    /\ tasks[t].pc = "gen_content"
    /\ r # "ok" => content = <<>>
    /\ Apply(t, IF r = "post_fail" THEN Same(Catch(tasks[t], "gen_catch", "post"))
                ELSE IF r = "call_fail"
                     THEN Same(Catch(tasks[t], "gen_catch", "content"))
                     ELSE ContentReturned(tasks[t], content))
    /\ UNCHANGED <<timers, img, parsed, page>>

\* The image batch has settled with result b.
ImagesReturned(task, b) ==
    IF b.threw THEN Same(Catch(task, "gen_catch", "images"))
    ELSE AttachDraft(task, b.images)

\* sendMessage(':art: Generating N screenshot mockup(s)...') and then
\* generateImages(content) settle: the batch ran with render outcomes oc.  The
\* batch touches no workflow state, so its render calls are one segment here.
GenImages(t, r, oc) ==
    /\ tasks[t].pc = "gen_images"
    /\ Apply(t, IF r = "post_fail" THEN Same(Catch(tasks[t], "gen_catch", "post"))
                ELSE ImagesReturned(tasks[t], GenerateImages(tasks[t].content, oc)))
    /\ UNCHANGED <<timers, img, parsed, page>>

\* showPreview: sendMessage(previewText), the image uploads (each in its own
\* try/catch) and chat.postMessage with the three buttons settle; generateKBA
\* and its caller return.
PreviewPosted(t, r) ==
    /\ tasks[t].pc = "pv_post"
    /\ Apply(t, Same(IF r = "post_fail" THEN Catch(tasks[t], "gen_catch", "post")
                     ELSE Ended(tasks[t], "returned")))
    /\ UNCHANGED <<timers, img, parsed, page>>

\* A catch clause of generateKBA that clears the whole map.
GenCatchClearsAll(m, k) == [j \in DOMAIN m |-> 0]

\* The catch clause of generateKBA once its sendMessage has resolved:
\* this.contexts.delete(contextKey).
GenCatchMap(m, k) == [m EXCEPT ![k] = 0]

\* catch: sendMessage(`:x: Error generating KBA: ...`), then the delete.  When
\* that sendMessage rejects the delete never runs and generateKBA rejects:
\* into startWorkflow's catch clause, or out of handleAnswer.
GenCatch(t, r) ==
    /\ tasks[t].pc = "gen_catch"
    /\ Apply(t, IF r = "post_fail"
                THEN Same(IF tasks[t].root = "start"
                          THEN [tasks[t] EXCEPT !.pc = "st_catch"]
                          ELSE Ended(tasks[t], "threw"))
                ELSE [map |-> GenCatchMap(ctxMap, tasks[t].key), heap |-> heap,
                      task |-> Ended(tasks[t], "returned")])
    /\ UNCHANGED <<timers, img, parsed, page>>

-----------------------------------------------------------------------------
(* approveAndPublish, requestChanges, cancelKBA, the cleanup timer *)

\* createKBAPage resolved: stage complete, the context put into the map.
Published(task, m, h) ==
    [map |-> [m EXCEPT ![task.key] = task.ctx],
     heap |-> [h EXCEPT ![task.ctx].stage = "complete",
                        ![task.ctx].published = TRUE],
     task |-> [task EXCEPT !.pc = "ap_announce"]]

\* A catch clause of approveAndPublish that discards the context, as the one
\* of generateKBA does.
PublishFailedDiscards(task, m, h, cause) ==
    [map |-> [m EXCEPT ![task.key] = 0], heap |-> h,
     task |-> Catch(task, "ap_catch", cause)]

\* The catch clause of approveAndPublish is entered: nothing but a message.
PublishFailed(task, m, h, cause) ==
    [map |-> m,
     heap |-> IF cause = "publish" THEN [h EXCEPT ![task.ctx].pubFails = @ + 1]
              ELSE h,
     task |-> Catch(task, "ap_catch", cause)]

\* sendMessage(':rocket: Publishing KBA to Confluence...') and then
\* confluenceService.createKBAPage settle.
ApprovePublish(t, r) ==
    /\ tasks[t].pc = "ap_publish"
    /\ Apply(t, IF r = "post_fail" THEN PublishFailed(tasks[t], ctxMap, heap, "post")
                ELSE IF r = "call_fail"
                     THEN PublishFailed(tasks[t], ctxMap, heap, "publish")
                     ELSE Published(tasks[t], ctxMap, heap))
    /\ UNCHANGED <<timers, img, parsed, page>>

\* sendMessage('KBA successfully published! ...') settles; setTimeout.
ApproveAnnounced(t, r) ==
    /\ tasks[t].pc = "ap_announce"
    /\ Apply(t, Same(IF r = "post_fail" THEN Catch(tasks[t], "ap_catch", "post")
                     ELSE Ended(tasks[t], "returned")))
    /\ timers' = IF r = "ok" THEN [timers EXCEPT ![tasks[t].key] = @ + 1]
                 ELSE timers
    /\ UNCHANGED <<img, parsed, page>>

\* catch: sendMessage(`:x: Error publishing to Confluence: ...`) settles.
ApproveCatch(t, r) ==
    /\ tasks[t].pc = "ap_catch"
    /\ Apply(t, Same(Ended(tasks[t], IF r = "post_fail" THEN "threw" ELSE "returned")))
    /\ UNCHANGED <<timers, img, parsed, page>>

\* The setTimeout callback: this.contexts.delete(contextKey).
CleanupTimer(k) ==
    /\ timers[k] > 0
    /\ timers' = [timers EXCEPT ![k] = @ - 1]
    /\ ctxMap' = [ctxMap EXCEPT ![k] = 0]
    /\ heap' = [o \in Refs |-> IF o \in Live(ctxMap', tasks) THEN heap[o] ELSE NoObj]
    /\ lastEnd' = Idle
    /\ UNCHANGED <<tasks, nEvents, img, parsed, page>>

\* A requestChanges that also drops the draft it sends back.
ChangesRequestedDropsDraft(task, m, h) ==
    [map |-> [m EXCEPT ![task.key] = task.ctx],
     heap |-> [h EXCEPT ![task.ctx].stage = "asking_questions",
                        ![task.ctx].changes = @ + 1,
                        ![task.ctx].draft = <<>>],
     task |-> Ended(task, "returned")]

\* A requestChanges that also clears the questions asked.
ChangesRequestedClearsQuestions(task, m, h) ==
    [map |-> [m EXCEPT ![task.key] = task.ctx],
     heap |-> [h EXCEPT ![task.ctx].stage = "asking_questions",
                        ![task.ctx].changes = @ + 1,
                        ![task.ctx].nq = 0],
     task |-> Ended(task, "returned")]

\* requestChanges after its sendMessage: stage asking_questions, map.set.
ChangesRequested(task, m, h) ==
    [map |-> [m EXCEPT ![task.key] = task.ctx],
     heap |-> [h EXCEPT ![task.ctx].stage = "asking_questions",
                        ![task.ctx].changes = @ + 1],
     task |-> Ended(task, "returned")]

\* sendMessage(':pencil: Please describe what changes ...') settles.
RequestChangesPosted(t, r) ==
    /\ tasks[t].pc = "rc_post"
    /\ Apply(t, IF r = "post_fail" THEN Same(Ended(tasks[t], "threw"))
                ELSE ChangesRequested(tasks[t], ctxMap, heap))
    /\ UNCHANGED <<timers, img, parsed, page>>

\* cancelKBA after its sendMessage: this.contexts.delete(contextKey).  The
\* object the map held is marked cancelled (history).
Cancelled(task, m, h) ==
    [map |-> [m EXCEPT ![task.key] = 0],
     heap |-> IF m[task.key] = 0 THEN h
              ELSE [h EXCEPT ![m[task.key]].cancelled = TRUE],
     task |-> Ended(task, "returned")]

\* sendMessage(':x: KBA generation cancelled.') settles.
CancelPosted(t, r) ==
    /\ tasks[t].pc = "cx_post"
    /\ Apply(t, IF r = "post_fail" THEN Same(Ended(tasks[t], "threw"))
                ELSE Cancelled(tasks[t], ctxMap, heap))
    /\ UNCHANGED <<timers, img, parsed, page>>

-----------------------------------------------------------------------------
(* The workflow specification *)

\* The thread keys are the domain of the map as Init made it.
Next ==
    \/ \E t \in TaskIds, k \in DOMAIN ctxMap, text \in Texts : MessageEvent(t, k, text)
    \/ \E t \in TaskIds, k \in DOMAIN ctxMap, text \in Texts : MentionEvent(t, k, text)
    \/ \E t \in TaskIds, k \in DOMAIN ctxMap : ApproveEvent(t, k)
    \/ \E t \in TaskIds, k \in DOMAIN ctxMap : RequestChangesEvent(t, k)
    \/ \E t \in TaskIds, k \in DOMAIN ctxMap : CancelEvent(t, k)
    \/ \E t \in TaskIds, r \in PostOutcomes \cup {"say_fail"} : StartParse(t, r)
    \/ \E t \in TaskIds, r \in PostOutcomes : StartNoKey(t, r)
    \/ \E t \in TaskIds, r \in {"ok", "call_fail"} : StartFetched(t, r)
    \/ \E t \in TaskIds, r \in CallOutcomes, n \in 0..MaxQuestions :
          StartQuestions(t, r, n)
    \/ \E t \in TaskIds, r \in PostOutcomes : StartAsked(t, r)
    \/ \E t \in TaskIds, r \in PostOutcomes : StartCatch(t, r)
    \/ \E t \in TaskIds, r \in PostOutcomes : AnswerThanked(t, r)
    \/ \E t \in TaskIds, r \in PostOutcomes : AnswerCounted(t, r)
    \/ \E t \in TaskIds, r \in CallOutcomes, c \in WorkflowContents :
          GenContent(t, r, c)
    \/ \E t \in TaskIds, r \in PostOutcomes :
          \E oc \in OutcomesFor(tasks[t].content) : GenImages(t, r, oc)
    \/ \E t \in TaskIds, r \in PostOutcomes : PreviewPosted(t, r)
    \/ \E t \in TaskIds, r \in PostOutcomes : GenCatch(t, r)
    \/ \E t \in TaskIds, r \in CallOutcomes : ApprovePublish(t, r)
    \/ \E t \in TaskIds, r \in PostOutcomes : ApproveAnnounced(t, r)
    \/ \E t \in TaskIds, r \in PostOutcomes : ApproveCatch(t, r)
    \/ \E t \in TaskIds, r \in PostOutcomes : RequestChangesPosted(t, r)
    \/ \E t \in TaskIds, r \in PostOutcomes : CancelPosted(t, r)
    \/ \E k \in DOMAIN ctxMap : CleanupTimer(k)

Spec == Init /\ [][Next]_vars

-----------------------------------------------------------------------------
(* The image batch on its own: every content of up to MaxSteps steps, under
   every outcome of its render calls *)

Contents == SeqsUpTo(Steps, MaxSteps)

InitImages ==
    /\ ctxMap = [k \in Keys |-> 0]
    /\ heap = [o \in Refs |-> NoObj]
    /\ tasks = [t \in TaskIds |-> Idle]
    /\ timers = [k \in Keys |-> 0]
    /\ nEvents = 0
    /\ lastEnd = Idle
    /\ \E c \in Contents : \E oc \in OutcomesFor(c) :
          img = [content |-> c, oc |-> oc, done |-> FALSE,
                 images |-> <<>>, trace |-> <<>>, threw |-> FALSE]
    /\ parsed = <<>>
    /\ page = <<>>

\* generateImages(content) runs to its return.
RunBatch ==
    /\ ~img.done
    /\ LET b == GenerateImages(img.content, img.oc)
       IN  img' = [img EXCEPT !.done = TRUE, !.images = b.images,
                              !.trace = b.trace, !.threw = b.threw]
    /\ UNCHANGED <<ctxMap, heap, tasks, timers, nEvents, lastEnd, parsed, page>>

NextImages == RunBatch

SpecImages == InitImages /\ [][NextImages]_vars

-----------------------------------------------------------------------------
(* Properties *)

Answers(c) == Cardinality(DOMAIN c.userAnswers)

\* What the program itself stores in a context (the history fields left out).
Visible(c) == [stage |-> c.stage, nq |-> c.nq, userAnswers |-> c.userAnswers,
               draft |-> c.draft]

GenPcs == {"gen_content", "gen_images", "pv_post", "gen_catch"}

\* Invocation t is inside a workflow operation (past the handler's own say).
InTransition(t) == InFlight(t) /\ tasks[t].pc # "st_analyzing"

\* C1: for a context with N >= 1 questions that has not gone through request
\* changes, generation is triggered at most once, only when exactly N answers
\* are stored, and no answer beyond the N-th is accepted.
C1_GenerationOnceOnNthAnswer ==
    \A o \in Refs :
        (heap[o].stage # "unallocated" /\ heap[o].nq >= 1 /\ heap[o].changes = 0)
        => /\ heap[o].genCalls <= 1
           /\ Answers(heap[o]) <= heap[o].nq
           /\ heap[o].genCalls = 1 => Answers(heap[o]) = heap[o].nq

\* C2: once cancelKBA has removed a context, no step puts that object back
\* into the map, changes it, presents its draft or announces its page.
C2_CancelledResultIgnored ==
    [][\A o \in Refs :
          heap[o].cancelled
          => /\ \A k \in Keys : ctxMap'[k] # o
             /\ heap'[o] \in {heap[o], NoObj}
             /\ \A t \in TaskIds :
                   (tasks[t].ctx = o /\ tasks[t].pc \in {"pv_post", "ap_announce"})
                   => ~(tasks'[t].pc = "done" /\ lastEnd'.pc = "returned")]_vars

\* C3: for every thread key at most one workflow transition is in flight.
C3_OneTransitionPerThread ==
    \A k \in Keys :
        Cardinality({t \in TaskIds : InTransition(t) /\ tasks[t].key = k}) <= 1

\* Invocation t takes a step of a failed publish: createKBAPage rejects, or the
\* catch clause of approveAndPublish finishes.
PublishFailing(t) ==
    \/ tasks[t].pc = "ap_publish" /\ tasks'[t].cause = "publish"
    \/ tasks[t].pc = "ap_catch" /\ tasks[t].cause = "publish" /\ tasks'[t] # tasks[t]

\* C4: an approve whose publishing call fails changes neither the map nor
\* what any context stores; every context in review has a draft, so an approve
\* event for it is accepted; and an approve invocation is only ever in
\* approveAndPublish (it runs no content generation and no image batch).
C4_ApproveFailureKeepsReview ==
    [][/\ \A t \in TaskIds :
             PublishFailing(t)
             => \A k \in Keys :
                   /\ ctxMap'[k] = ctxMap[k]
                   /\ ctxMap[k] # 0
                      => Visible(heap'[ctxMap[k]]) = Visible(heap[ctxMap[k]])
       /\ \A k \in Keys :
             (ctxMap'[k] # 0 /\ heap'[ctxMap'[k]].stage = "review")
             => ~ApproveIgnored(ctxMap', heap', k)
       /\ \A t \in TaskIds :
             tasks'[t].root = "approve"
             => tasks'[t].pc \in {"ap_publish", "ap_announce", "ap_catch"}]_vars

\* C4 witness: after a failed publish the context is still mapped, in review,
\* and a later approve (nothing else in flight) is at its publishing call.
C4_SecondApproveAccepted ==
    \E t \in TaskIds :
        /\ tasks[t].pc = "ap_publish"
        /\ \A u \in TaskIds \ {t} : ~InFlight(u)
        /\ ctxMap[tasks[t].key] = tasks[t].ctx
        /\ heap[tasks[t].ctx].stage = "review"
        /\ heap[tasks[t].ctx].pubFails >= 1
        /\ tasks[t].draft = heap[tasks[t].ctx].draft

\* C5: when the invocation in which content generation failed ends, its
\* context is no longer in the map.
C5_ContentFailureDiscardsContext ==
    lastEnd.cause = "content" => ctxMap[lastEnd.key] # lastEnd.ctx

\* C6: a start whose ticket fetch failed has created no context, is posting
\* the failure message, and when it returns the thread key has no context.
C6_FetchFailureLeavesNoContext ==
    /\ \A t \in TaskIds :
          tasks[t].cause = "fetch" => tasks[t].pc = "st_catch" /\ tasks[t].ctx = 0
    /\ (lastEnd.cause = "fetch" /\ lastEnd.pc = "returned")
       => ctxMap[lastEnd.key] = 0 /\ lastEnd.ctx = 0

\* C6 witness: a start whose fetch failed has just returned.
C6_FetchFailedStartReturned ==
    lastEnd.root = "start" /\ lastEnd.cause = "fetch" /\ lastEnd.pc = "returned"

\* Invocation t is a start whose text holds no ticket reference.
NoKeyStart(t) ==
    /\ tasks[t].root = "start"
    /\ tasks[t].text \in Texts
    /\ TicketKeyOf[tasks[t].text] = NoMatch

\* C7: a start whose text holds no ticket reference never reaches the fetch
\* and none of its steps changes the map of contexts.
C7_NoKeyStartChangesNothing ==
    [][\A t \in TaskIds :
          (NoKeyStart(t) /\ tasks'[t] # tasks[t])
          => ctxMap' = ctxMap /\ tasks'[t].pc # "st_fetch"]_vars

\* C8: a start posts the question list only when there are questions, and a
\* generation pass runs inside a start only for a context with zero questions
\* and no stored answer.
C8_ZeroQuestionsSkipToGeneration ==
    \A t \in TaskIds :
        /\ tasks[t].pc = "st_ask" => heap[tasks[t].ctx].nq >= 1
        /\ (tasks[t].root = "start" /\ tasks[t].pc \in GenPcs)
           => /\ tasks[t].ctx = t
              /\ heap[t].nq = 0
              /\ (heap[t].changes = 0 => Answers(heap[t]) = 0)

\* C8 witness: the start itself has brought a zero-question context to review
\* and is presenting the draft; no answer was ever stored.
C8_ReviewWithoutAnswers ==
    \E t \in TaskIds :
        /\ tasks[t].root = "start" /\ tasks[t].pc = "pv_post"
        /\ ctxMap[tasks[t].key] = t
        /\ heap[t].stage = "review" /\ heap[t].nq = 0 /\ Answers(heap[t]) = 0

\* C9: the image batch never sends a generation pass into its catch clause:
\* once the batch settles (and the post before it resolved) the draft is
\* attached with the images that were rendered and the stage is review.
C9_RenderFailuresReachReview ==
    [][\A t \in TaskIds :
          /\ tasks'[t].cause # "images"
          /\ (tasks[t].pc = "gen_images" /\ tasks'[t].pc # "gen_images"
              /\ tasks'[t].cause # "post")
             => /\ tasks'[t].pc = "pv_post"
                /\ heap'[tasks[t].ctx].stage = "review"
                /\ heap'[tasks[t].ctx].draft # <<>>
                /\ heap'[tasks[t].ctx].draft[1].content = tasks[t].content
                /\ ctxMap'[tasks[t].key] = tasks[t].ctx]_vars

\* C9 witness: a context in review whose content asks for an image and whose
\* draft has none (every render failed).
C9_ReviewWithNoImages ==
    \E k \in Keys :
        /\ ctxMap[k] # 0
        /\ heap[ctxMap[k]].stage = "review"
        /\ heap[ctxMap[k]].draft # <<>>
        /\ StepsWithImages(heap[ctxMap[k]].draft[1].content) # {}
        /\ heap[ctxMap[k]].draft[1].images = <<>>

\* The (step, platform) pairs a content declares.
Declared(content) ==
    {p \in (1..Len(content)) \X Platforms :
        /\ content[p[1]].prompt
        /\ content[p[1]].osType \in {p[2], "both"}}

\* The pairs a batch requested.
Requested(trace) ==
    {<<trace[j][2], trace[j][3]>> :
        j \in {i \in 1..Len(trace) : trace[i][1] = "render"}}

\* The pairs of an image list.
Pairs(images) == {<<images[j].stepNumber, images[j].osType>> : j \in 1..Len(images)}

\* C10: a finished batch has requested every declared pair, and its image list
\* holds every declared pair but those whose own render produced no image.
C10_EveryPairRequested ==
    img.done
    => /\ Requested(img.trace) = Declared(img.content)
       /\ Pairs(img.images) = {p \in Declared(img.content) : img.oc[p] = "url"}

\* index.ts 70-75: a message that references a ticket starts a conversation
\* exactly when the thread key has no context.
TreatedAsStart(k, text) ==
    (HasJiraUrl[text] \/ TicketKeyOf[text] # NoMatch) /\ ctxMap[k] = 0

\* C11: when cancelKBA has run to its end on a thread the map holds no context
\* for it, and from then on a message that references a ticket is treated as
\* a start: the map never again holds the cancelled context.
C11_CancelThenFreshStart ==
    /\ (lastEnd.root = "cancel" /\ lastEnd.pc = "returned")
       => ctxMap[lastEnd.key] = 0
    /\ \A k \in Keys, text \in {KeyText, UrlOnlyText} :
          (\E o \in Refs : heap[o].cancelled /\ ctxMap[k] = o)
          => TreatedAsStart(k, text)

\* C12: when a cancelKBA invocation ends, by returning or by rejecting, the
\* thread key has no context.
C12_CancelAlwaysDiscards ==
    (lastEnd.root = "cancel" /\ lastEnd.pc \in Finished) => ctxMap[lastEnd.key] = 0

\* C13: the program removes a completed context only in the setTimeout
\* callback, which approveAndPublish arms after its success post.  So a
\* context in stage complete is in the map only while a callback is pending or
\* while an approveAndPublish of the thread has yet to arm one.
C13_CompleteIsRemoved ==
    \A k \in Keys :
        (ctxMap[k] # 0 /\ heap[ctxMap[k]].stage = "complete")
        => \/ timers[k] > 0
           \/ \E t \in TaskIds : tasks[t].key = k /\ tasks[t].pc = "ap_announce"

ApprovePcs == {"ap_publish", "ap_announce", "ap_catch"}

C15_AnswersWithinQuestions ==
    \A o \in Refs :
        heap[o].stage = "asking_questions" => Answers(heap[o]) <= heap[o].nq

\* The stages in their forward order.
StageOrder == <<"analyzing", "asking_questions", "generating", "review", "complete">>
Rank(s) == CHOOSE i \in 1..Len(StageOrder) : StageOrder[i] = s

\* C16: whenever the stage of a context changes it moves forward, but for the
\* edge review -> asking_questions taken by requestChanges.
C16_StageMovesForward ==
    [][\A o \in Refs :
          (/\ heap[o].stage \in Stages /\ heap'[o].stage \in Stages
           /\ heap'[o].stage # heap[o].stage)
          => \/ Rank(heap'[o].stage) > Rank(heap[o].stage)
             \/ /\ heap[o].stage = "review"
                /\ heap'[o].stage = "asking_questions"
                /\ heap'[o].changes = heap[o].changes + 1]_vars

\* C17: a draft appears on a context only in a step that also sets stage
\* review, at the end of a generation pass begun for it; and while the context
\* exists a draft never becomes absent again.
C17_DraftOnlyFromGeneration ==
    [][\A o \in Refs :
          /\ (heap[o].draft = <<>> /\ heap'[o].draft # <<>>)
             => /\ heap'[o].stage = "review"
                /\ heap[o].genCalls >= 1
                /\ \E t \in TaskIds : tasks[t].ctx = o /\ tasks[t].pc \in GenPcs
          /\ (heap[o].draft # <<>> /\ heap'[o].stage \in Stages)
             => heap'[o].draft # <<>>]_vars

\* C17 witness: a context sent back by request changes still carries the draft
\* of its generation pass.
C17_DraftSurvivesChanges ==
    \E k \in Keys :
        /\ ctxMap[k] # 0
        /\ heap[ctxMap[k]].stage = "asking_questions"
        /\ heap[ctxMap[k]].changes >= 1
        /\ heap[ctxMap[k]].draft # <<>>

\* C18: a start whose event arrived while the thread key had a context leaves
\* that context in the map, with everything it stores, in every step it takes.
C18_StartKeepsExistingContext ==
    [][\A t \in TaskIds :
          (/\ tasks[t].root = "start" /\ tasks[t].seen # 0
           /\ tasks'[t] # tasks[t]
           /\ ctxMap[tasks[t].key] = tasks[t].seen)
          => /\ ctxMap'[tasks[t].key] = tasks[t].seen
             /\ Visible(heap'[tasks[t].seen]) = Visible(heap[tasks[t].seen])]_vars

-----------------------------------------------------------------------------
(* Two threads: the same workflow with two thread keys *)

ThreadKeys == {"k1", "k2"}

InitThreads ==
    /\ ctxMap = [k \in ThreadKeys |-> 0]
    /\ heap = [o \in Refs |-> NoObj]
    /\ tasks = [t \in TaskIds |-> Idle]
    /\ timers = [k \in ThreadKeys |-> 0]
    /\ nEvents = 0
    /\ lastEnd = Idle
    /\ img = <<>>
    /\ parsed = <<>>
    /\ page = <<>>

SpecThreads == InitThreads /\ [][Next]_vars

\* The thread keys of the operations that act in a step: the key of every
\* invocation that moves, of an event whose handler returns at once, and of a
\* cleanup callback that fires.
StepKeys ==
    {tasks[t].key : t \in {u \in TaskIds : tasks'[u] # tasks[u] /\ tasks[u].pc # "idle"}}
    \cup {tasks'[t].key : t \in {u \in TaskIds : tasks'[u] # tasks[u] /\ tasks[u].pc = "idle"}}
    \cup {lastEnd'.key : x \in {y \in {1} : lastEnd' # Idle}}
    \cup {k \in DOMAIN timers : timers'[k] # timers[k]}

\* C19: a step of an operation for one thread key leaves the map entry and the
\* context object of every other thread key as they were.
C19_OtherThreadsUntouched ==
    [][\A k \in DOMAIN ctxMap :
          k \notin StepKeys
          => /\ ctxMap'[k] = ctxMap[k]
             /\ ctxMap[k] # 0 => heap'[ctxMap[k]] = heap[ctxMap[k]]]_vars

\* C19 witness: a failed generation pass has just discarded the context of
\* thread k1 while thread k2 has a context under way.
C19_OneThreadFailsOtherLives ==
    /\ lastEnd.key = "k1" /\ lastEnd.cause = "content" /\ lastEnd.pc = "returned"
    /\ ctxMap["k1"] = 0
    /\ ctxMap["k2"] # 0
    /\ heap[ctxMap["k2"]].stage \in Stages

\* C20: an answer invocation (one that stores the text and posts) begins only
\* for a thread whose context is in stage asking_questions; answers are stored
\* only on such a context; and a message that is neither a start nor an
\* accepted answer changes no context, no invocation and no timer.
C20_AnswerOutsideAskingIgnored ==
    [][/\ \A t \in TaskIds :
             (tasks[t].pc = "idle" /\ tasks'[t].root = "answer")
             => ~AnswerIgnored(ctxMap, heap, tasks'[t].key)
       /\ \A o \in Refs :
             (heap'[o].stage \in Stages /\ heap'[o].userAnswers # heap[o].userAnswers)
             => /\ heap[o].stage = "asking_questions"
                /\ \E k \in DOMAIN ctxMap : ctxMap[k] = o
       /\ lastEnd'.root = "message"
          => /\ lastEnd' = Ignored("message", lastEnd'.key)
             /\ UNCHANGED <<ctxMap, heap, tasks, timers, nEvents>>]_vars

\* C20 witness: a message has just been ignored in a thread whose context is
\* in review.
C20_MessageIgnoredInReview ==
    /\ lastEnd.root = "message" /\ lastEnd.pc = "returned"
    /\ ctxMap[lastEnd.key] # 0
    /\ heap[ctxMap[lastEnd.key]].stage = "review"

SentBack(c) == c.stage = "asking_questions" /\ c.changes >= 1 /\ c.draft # <<>>

\* The texts stored as answers (each written as the number of its event).
AnswerTexts(c) == {c.userAnswers[i] : i \in DOMAIN c.userAnswers}

\* C22: a context sent back from review is in stage asking_questions, so a
\* message is accepted; the first message accepted completes the answers
\* whatever the number of questions, and when its announcement settles it
\* begins exactly one generation pass, on the context that stores its text.
C22_FeedbackStartsOnePass ==
    [][/\ \A o \in Refs :
             (heap[o].stage = "review" /\ heap'[o].changes = heap[o].changes + 1)
             => SentBack(heap'[o]) /\ lastEnd'.root = "request_changes"
       /\ \A k \in DOMAIN ctxMap :
             (ctxMap'[k] # 0 /\ SentBack(heap'[ctxMap'[k]]))
             => ~AnswerIgnored(ctxMap', heap', k)
       /\ \A t \in TaskIds :
             /\ (/\ tasks[t].pc = "idle" /\ tasks'[t].root = "answer"
                 /\ SentBack(heap[ctxMap[tasks'[t].key]]))
                => /\ tasks'[t].pc = "an_thanks"
                   /\ t \in AnswerTexts(heap'[ctxMap[tasks'[t].key]])
             /\ (/\ tasks[t].pc = "an_thanks" /\ tasks'[t] # tasks[t]
                 /\ ctxMap[tasks[t].key] # 0
                 /\ heap[ctxMap[tasks[t].key]].changes >= 1
                 /\ heap[ctxMap[tasks[t].key]].draft # <<>>
                 /\ t \in AnswerTexts(heap[ctxMap[tasks[t].key]]))
                => LET o == ctxMap[tasks[t].key]
                   IN  /\ tasks'[t].pc = "gen_content" /\ tasks'[t].ctx = o
                       /\ heap'[o].genCalls = heap[o].genCalls + 1
                       /\ heap'[o].stage = "generating"
                       /\ t \in AnswerTexts(heap'[o])]_vars

\* generateKBA line 157: the collaborator asked for the content of a pass on
\* context c.  The method has one call site, whatever the context went through.
ContentCollaborator(c) == "generateKBAContent"

\* C23: a generation pass on a context that was sent back from review asks
\* refineKBAContent for its content.
C23_RegenerationRefines ==
    \A t \in TaskIds :
        (/\ tasks[t].pc = "gen_content"
         /\ heap[tasks[t].ctx].changes >= 1
         /\ heap[tasks[t].ctx].draft # <<>>)
        => ContentCollaborator(heap[tasks[t].ctx]) = "refineKBAContent"

\* C27: no invocation ends by rejecting out of a workflow operation.  (The
\* one rejection that starts outside them is the say() the message and mention
\* handlers await before they call startWorkflow.)
C27_NoOperationRejects ==
    lastEnd.pc = "threw"
    => /\ lastEnd.root = "start"
       /\ lastEnd.cause = "none"
       /\ lastEnd.ctx = 0

\* C30: no message is accepted as an answer while an invocation of the same
\* thread is posting the "I have all the information" announcement, and no
\* two answer invocations are inside a generation pass of one context.
C30_NoAnswerDuringAnnouncement ==
    [][/\ \A t \in TaskIds :
             (tasks[t].pc = "idle" /\ tasks'[t].root = "answer")
             => ~\E u \in TaskIds :
                    tasks[u].pc = "an_thanks" /\ tasks[u].key = tasks'[t].key
       /\ \A o \in Refs \ {0} :
             Cardinality({t \in TaskIds : /\ tasks'[t].root = "answer"
                                          /\ tasks'[t].pc \in GenPcs
                                          /\ tasks'[t].ctx = o}) <= 1]_vars

\* The render requests of a batch, in the order they were issued.
Renders(trace) == SelectSeq(trace, LAMBDA e : e[1] = "render")

\* The platforms a step declares: 2 for both, 1 for mac or windows, none
\* when the tag is absent.
PlatformCount(step) ==
    Cardinality({os \in Platforms : step.osType \in {os, "both"}})

RECURSIVE RequestsDue(_, _)
RequestsDue(content, i) ==
    IF i > Len(content) THEN 0
    ELSE (IF content[i].prompt THEN PlatformCount(content[i]) ELSE 0)
         + RequestsDue(content, i + 1)

NoRenderThrows == \A p \in Declared(img.content) : img.oc[p] # "throw"

\* C24: a batch in which no render call throws issues as many render requests
\* as the steps with a prompt declare platforms, one per declared pair, and
\* none for a step without a prompt.
C24_OneRequestPerDeclaredPlatform ==
    (img.done /\ NoRenderThrows)
    => /\ Len(Renders(img.trace)) = RequestsDue(img.content, 1)
       /\ Requested(img.trace) = Declared(img.content)
       /\ \A j \in 1..Len(img.trace) :
             img.trace[j][1] = "render" => img.content[img.trace[j][2]].prompt

\* C24 witness: two steps, only the first with a prompt and tagged both; the
\* batch has issued exactly two requests.
C24_TwoRequestsForBoth ==
    /\ img.done /\ NoRenderThrows
    /\ Len(img.content) = 2
    /\ img.content[1] = [prompt |-> TRUE, osType |-> "both"]
    /\ ~img.content[2].prompt
    /\ Renders(img.trace) = <<<<"render", 1, "mac">>, <<"render", 1, "windows">>>>

\* C25: the render requests of a batch are issued in step order and every
\* render request that is followed by another has the pacing delay right
\* after it.
C25_DelayBetweenRenders ==
    img.done
    => /\ \A j \in 1..(Len(img.trace) - 1) :
             (img.trace[j][1] = "render"
              /\ \E n \in (j + 1)..Len(img.trace) : img.trace[n][1] = "render")
             => img.trace[j + 1][1] = "delay"
       /\ \A j, n \in 1..Len(Renders(img.trace)) :
             j < n => Renders(img.trace)[j][2] <= Renders(img.trace)[n][2]

-----------------------------------------------------------------------------
(* extractTicketKey on its own: every text of up to MaxLen characters over a
   small alphabet, bare, behind a /browse/ path, or behind a bare key and a
   /browse/ path *)

ParseChars == {"T", "e", "-", "4"}
ParseTexts == {p \o b : p \in {<<>>, BrowsePath, KeyText \o BrowsePath},
                       b \in SeqsUpTo(ParseChars, MaxLen)}

InitParse ==
    /\ ctxMap = [k \in Keys |-> 0]
    /\ heap = [o \in Refs |-> NoObj]
    /\ tasks = [t \in TaskIds |-> Idle]
    /\ timers = [k \in Keys |-> 0]
    /\ nEvents = 0
    /\ lastEnd = Idle
    /\ img = <<>>
    /\ page = <<>>
    /\ \E x \in ParseTexts : parsed = [text |-> x, done |-> FALSE, key |-> NoMatch]

\* extractTicketKey(text) runs to its return.
ParseText ==
    /\ ~parsed.done
    /\ parsed' = [parsed EXCEPT !.done = TRUE, !.key = ExtractTicketKey(parsed.text)]
    /\ UNCHANGED <<ctxMap, heap, tasks, timers, nEvents, lastEnd, img, page>>

NextParse == ParseText

SpecParse == InitParse /\ [][NextParse]_vars

\* w has the form <LETTERS>-<DIGITS>.
IsKey(w) ==
    \E j \in 2..(Len(w) - 1) :
        /\ w[j] = "-"
        /\ \A i \in 1..(j - 1) : w[i] \in Upper
        /\ \A i \in (j + 1)..Len(w) : w[i] \in Digit

Substrings(s) == {SubSeq(s, i, j) : i, j \in 1..Len(s)}

\* C26: for a text that contains a substring of the form <LETTERS>-<DIGITS>
\* extractTicketKey returns such a substring of the text, and the key itself
\* when the text is a key or a key behind /browse/; for any other text it
\* returns the no-match value.
C26_KeyFoundWhereverItStands ==
    parsed.done
    => /\ (\E w \in Substrings(parsed.text) : IsKey(w))
          <=> parsed.key # NoMatch
       /\ parsed.key # NoMatch
          => IsKey(parsed.key) /\ parsed.key \in Substrings(parsed.text)
       /\ \A w \in Substrings(parsed.text) :
             (IsKey(w) /\ parsed.text \in {w, BrowsePath \o w}) => parsed.key = w

\* C26 witness: a ticket URL path has been parsed to its key.
C26_KeyBehindBrowse ==
    /\ parsed.done
    /\ parsed.text = BrowsePath \o <<"T", "T", "-", "4">>
    /\ parsed.key = <<"T", "T", "-", "4">>

-----------------------------------------------------------------------------
(* ConfluenceService.createKBAPage and updateKBAPage on their own: a content,
   the images generated from it, and the outcome of every request *)

\* An attachment name under another prefix than the page body uses.
UploadFilenameOther(image) == <<"image-", image.stepNumber, "-", image.osType, ".png">>

\* const filename = `step-${image.stepNumber}-${image.osType}.png`
UploadFilename(image) == <<"step-", image.stepNumber, "-", image.osType, ".png">>

\* ri:filename="step-${step.stepNumber}-${image.osType}.png"
BodyFilename(stepNumber, image) == <<"step-", stepNumber, "-", image.osType, ".png">>

\* The attachment references of `for (const step of content.steps)` from step
\* i on: for each step, one reference per image whose stepNumber is the step's.
RECURSIVE StepRefs(_, _, _)
StepRefs(content, images, i) ==
    IF i > Len(content) THEN <<>>
    ELSE LET stepImages == SelectSeq(images, LAMBDA im : im.stepNumber = i)
         IN  [j \in 1..Len(stepImages) |-> BodyFilename(i, stepImages[j])]
             \o StepRefs(content, images, i + 1)

\* generateConfluenceHTML: the attachment filenames the page body references.
GenerateConfluenceHTML(content, images) == StepRefs(content, images, 1)

UploadOutcomes == {"ok", "download_fail", "upload_fail"}

\* One request of a page operation.
Call(c, f, ok) == [call |-> c, file |-> f, ok |-> ok]

\* The loop of uploadImages without its try/catch: the first failing request
\* ends the loop and rejects.
RECURSIVE UploadImagesUncaught(_, _, _)
UploadImagesUncaught(images, uo, j) ==
    IF j > Len(images) THEN [trace |-> <<>>, threw |-> FALSE]
    ELSE IF uo[j] = "download_fail"
         THEN [trace |-> <<Call("download", <<>>, FALSE)>>, threw |-> TRUE]
         ELSE IF uo[j] = "upload_fail"
              THEN [trace |-> <<Call("download", <<>>, TRUE),
                                Call("upload", UploadFilename(images[j]), FALSE)>>,
                    threw |-> TRUE]
              ELSE LET rest == UploadImagesUncaught(images, uo, j + 1)
                   IN  [trace |-> <<Call("download", <<>>, TRUE),
                                    Call("upload", UploadFilename(images[j]), TRUE)>>
                                  \o rest.trace,
                        threw |-> rest.threw]

\* uploadImages from image j on: download the image, then post it as an
\* attachment under its filename; a failure of either is caught and the loop
\* goes on.
RECURSIVE UploadImages(_, _, _)
UploadImages(images, uo, j) ==
    IF j > Len(images) THEN [trace |-> <<>>, threw |-> FALSE]
    ELSE LET rest == UploadImages(images, uo, j + 1)
             mine == IF uo[j] = "download_fail"
                     THEN <<Call("download", <<>>, FALSE)>>
                     ELSE <<Call("download", <<>>, TRUE),
                            Call("upload", UploadFilename(images[j]), uo[j] = "ok")>>
         IN  [trace |-> mine \o rest.trace, threw |-> FALSE]

RequestOutcomes == {"ok", "fail"}

\* The body submission and what follows it in both operations: the body goes
\* out with its attachment references (the call's file field), then
\* uploadImages runs; a rejection of either reaches the catch block, which
\* throws the operation's error.
SubmitPage(call, content, images, o) ==
    LET refs == GenerateConfluenceHTML(content, images)
    IN  IF o.body = "fail"
        THEN [trace |-> <<Call(call, refs, FALSE)>>, result |-> "error"]
        ELSE LET up == UploadImages(images, o.uo, 1)
             IN  [trace |-> <<Call(call, refs, TRUE)>> \o up.trace,
                  result |-> IF up.threw THEN "error" ELSE "url"]

\* createKBAPage: client.post('/content', page), then uploadImages.
CreateKBAPage(content, images, o) == SubmitPage("post", content, images, o)

\* updateKBAPage: client.get of the current version, then client.put of the
\* new body, then uploadImages.
UpdateKBAPage(content, images, o) ==
    IF o.get = "fail"
    THEN [trace |-> <<Call("get", <<>>, FALSE)>>, result |-> "error"]
    ELSE LET r == SubmitPage("put", content, images, o)
         IN  [trace |-> <<Call("get", <<>>, TRUE)>> \o r.trace, result |-> r.result]

\* The image lists generateImages can return for a content.
ImagesOf(content) == {GenerateImages(content, oc).images : oc \in OutcomesFor(content)}

InitPage ==
    /\ ctxMap = [k \in Keys |-> 0]
    /\ heap = [o \in Refs |-> NoObj]
    /\ tasks = [t \in TaskIds |-> Idle]
    /\ timers = [k \in Keys |-> 0]
    /\ nEvents = 0
    /\ lastEnd = Idle
    /\ img = <<>>
    /\ parsed = <<>>
    /\ \E c \in Contents : \E ims \in ImagesOf(c) :
       \E op \in {"create", "update"} :
       \E g \in (IF op = "update" THEN RequestOutcomes ELSE {"ok"}) :
       \E b \in RequestOutcomes : \E uo \in [1..Len(ims) -> UploadOutcomes] :
          page = [op |-> op, content |-> c, images |-> ims,
                  o |-> [get |-> g, body |-> b, uo |-> uo],
                  done |-> FALSE, trace |-> <<>>, result |-> "none"]

\* createKBAPage(content, images, jiraKey) runs to its end.
CreatePage ==
    /\ ~page.done
    /\ page.op = "create"
    /\ LET r == CreateKBAPage(page.content, page.images, page.o)
       IN  page' = [page EXCEPT !.done = TRUE, !.trace = r.trace, !.result = r.result]
    /\ UNCHANGED <<ctxMap, heap, tasks, timers, nEvents, lastEnd, img, parsed>>

\* updateKBAPage(pageId, content, images, jiraKey) runs to its end.
UpdatePage ==
    /\ ~page.done
    /\ page.op = "update"
    /\ LET r == UpdateKBAPage(page.content, page.images, page.o)
       IN  page' = [page EXCEPT !.done = TRUE, !.trace = r.trace, !.result = r.result]
    /\ UNCHANGED <<ctxMap, heap, tasks, timers, nEvents, lastEnd, img, parsed>>

NextPage == CreatePage \/ UpdatePage

SpecPage == InitPage /\ [][NextPage]_vars

BodyCalls == {"post", "put"}
AttachCalls == {"download", "upload"}

\* The positions of the trace holding a call of one of the given kinds.
CallsOf(kinds) == {j \in 1..Len(page.trace) : page.trace[j].call \in kinds}

BodySucceeded == \E j \in CallsOf(BodyCalls) : page.trace[j].ok

\* C28: in page creation and page update alike, every attachment request
\* comes after a body submission that succeeded; when the body submission (or
\* the version read before it) fails nothing is uploaded and the operation
\* reports an error; when it succeeds the operation returns the page URL
\* whatever the uploads do, and every image is still attempted, each image
\* whose own requests succeed being uploaded.
C28_UploadsAfterBodyAndTolerated ==
    page.done
    => /\ \A j \in CallsOf(AttachCalls) :
             \E i \in CallsOf(BodyCalls) : i < j /\ page.trace[i].ok
       /\ ~BodySucceeded => page.result = "error" /\ CallsOf(AttachCalls) = {}
       /\ BodySucceeded
          => /\ page.result = "url"
             /\ Cardinality(CallsOf({"download"})) = Len(page.images)
             /\ Cardinality({j \in CallsOf({"upload"}) : page.trace[j].ok})
                = Cardinality({j \in 1..Len(page.images) : page.o.uo[j] = "ok"})

\* C28 witness: an update whose first attachment failed to upload, whose
\* second was uploaded, and which returned the page URL.
C28_UploadFailedPageReturned ==
    /\ page.done
    /\ page.op = "update"
    /\ Len(page.images) >= 2
    /\ page.o.uo[1] = "upload_fail"
    /\ page.o.uo[2] = "ok"
    /\ page.result = "url"
    /\ \E j \in CallsOf({"upload"}) :
          page.trace[j].ok /\ page.trace[j].file = UploadFilename(page.images[2])

\* The filenames the submitted page body references.
Referenced == UNION {{page.trace[j].file[r] : r \in 1..Len(page.trace[j].file)} :
                     j \in CallsOf(BodyCalls)}

\* The filenames of the attachment upload requests issued.
Uploaded == {page.trace[j].file : j \in CallsOf({"upload"})}

C31_NoSecondPage ==
    [][\A t \in TaskIds :
          (tasks[t].pc = "ap_publish" /\ tasks'[t].pc = "ap_announce")
          => heap[tasks[t].ctx].stage # "complete"]_vars

\* C32: a text message, with or without a ticket reference, delivered to a
\* thread whose context is in stage complete is dropped by its handler: the
\* map, every context and every invocation stay as they were, no answer is
\* stored and no start is taken up.
C32_CompleteIgnoresMessages ==
    [][\A t \in TaskIds, k \in DOMAIN ctxMap, text \in Texts :
          (/\ ctxMap[k] # 0
           /\ heap[ctxMap[k]].stage = "complete"
           /\ MessageEvent(t, k, text))
          => /\ UNCHANGED <<ctxMap, heap, tasks, timers, nEvents>>
             /\ lastEnd' = Ignored("message", k)]_vars

\* C32 witness: a message has just been dropped in a thread whose context is
\* in stage complete, with its cleanup still pending.
C32_MessageDroppedInComplete ==
    /\ lastEnd = Ignored("message", lastEnd.key)
    /\ lastEnd.key \in DOMAIN ctxMap
    /\ ctxMap[lastEnd.key] # 0
    /\ heap[ctxMap[lastEnd.key]].stage = "complete"
    /\ timers[lastEnd.key] > 0

\* C33: the answers of a context fill the slots 1..n without a gap, and a
\* step that changes the answers of a context adds slot n + 1 and leaves the
\* slots 1..n as they were, whatever the context has been through.
C33_AnswersAppendInOrder ==
    [][\A o \in Refs :
          /\ DOMAIN heap[o].userAnswers = 1..Cardinality(DOMAIN heap[o].userAnswers)
          /\ (heap'[o].stage \in Stages /\ heap'[o].userAnswers # heap[o].userAnswers)
             => LET n == Cardinality(DOMAIN heap[o].userAnswers)
                IN  /\ DOMAIN heap'[o].userAnswers = 1..(n + 1)
                    /\ \A i \in 1..n : heap'[o].userAnswers[i] = heap[o].userAnswers[i]]_vars

\* C33 witness: a context holds the texts of two messages, the earlier one in
\* slot 1 and the later one in slot 2.
C33_TwoAnswersInArrivalOrder ==
    \E o \in Refs :
        /\ heap[o].stage \in Stages
        /\ DOMAIN heap[o].userAnswers = {1, 2}
        /\ heap[o].userAnswers[1] < heap[o].userAnswers[2]

\* C34: the questions of a context change only in the step of its own start
\* in which question generation returns, which happens once.
C34_QuestionsFixedOnceAsked ==
    [][\A o \in Refs :
          (heap[o].stage \in Stages /\ heap'[o].stage \in Stages
           /\ heap'[o].nq # heap[o].nq)
          => /\ tasks[o].pc = "st_questions" /\ tasks[o].ctx = o
             /\ tasks[o].root = "start"
             /\ tasks'[o].pc # "st_questions"
             /\ heap[o].nq = 0]_vars

\* C34 witness: a context that was asked a question has been answered,
\* generated, sent back from review, and still has its question.
C34_QuestionsKeptThroughLoop ==
    \E o \in Refs :
        /\ heap[o].stage = "asking_questions"
        /\ heap[o].nq = 1
        /\ Cardinality(DOMAIN heap[o].userAnswers) = 1
        /\ heap[o].genCalls = 1
        /\ heap[o].changes = 1
        /\ heap[o].draft # <<>>

\* The positions of s at which a substring of the form <LETTERS>-<DIGITS> begins.
KeyStarts(s) == {i \in 1..Len(s) : \E j \in i..Len(s) : IsKey(SubSeq(s, i, j))}

\* The longest key that begins at position i of s.
LongestKeyAt(s, i) ==
    LET ends == {j \in i..Len(s) : IsKey(SubSeq(s, i, j))}
    IN  SubSeq(s, i, CHOOSE j \in ends : \A e \in ends : e <= j)

\* The positions of s at which a key begins right after "browse/".
KeysAfterBrowse(s) ==
    {i \in KeyStarts(s) : i > Len(BrowseWord)
                          /\ SubSeq(s, i - Len(BrowseWord), i - 1) = BrowseWord}

\* C35: the result of extractTicketKey is the leftmost bare key of the text
\* (taken as far as it goes), also when a different key follows browse/
\* further on; a text in which a key follows browse/ always has a bare key, so
\* the URL pattern never decides against the bare one.
C35_BarePatternFirst ==
    parsed.done
    => /\ KeyStarts(parsed.text) # {}
          => parsed.key = LongestKeyAt(parsed.text, Min(KeyStarts(parsed.text)))
       /\ KeyStarts(parsed.text) = {} => parsed.key = NoMatch
       /\ KeysAfterBrowse(parsed.text) # {} => KeyStarts(parsed.text) # {}

\* C35 witness: a text with a bare key and, after browse/, a different key has
\* been parsed to the bare key.
C35_BareKeyBeatsUrlKey ==
    /\ parsed.done
    /\ parsed.text = KeyText \o BrowsePath \o <<"T", "T", "-", "4">>
    /\ parsed.key = KeyText

\* C36: an approve event is taken up, and so reaches the publishing call,
\* only when the context of its thread is in stage review.
C36_PublishOnlyFromReview ==
    [][\A t \in TaskIds :
          (tasks[t].pc = "idle" /\ tasks'[t].root = "approve")
          => heap[ctxMap[tasks'[t].key]].stage = "review"]_vars

\* C37: when a cleanup timer of a thread fires, the context it removes from
\* the map, if any, is one whose page was published, never a context started
\* since.
C37_CleanupSparesNewerContext ==
    [][\A k \in DOMAIN ctxMap :
          (timers'[k] < timers[k] /\ ctxMap[k] # 0)
          => heap[ctxMap[k]].published]_vars

\* C38: when a start whose question call failed has ended, it has returned
\* (its failure message was posted), its context is no longer in the map, and
\* the thread holds no context in stage analyzing.
C38_QuestionFailureDiscardsContext ==
    lastEnd.cause = "questions"
    => /\ lastEnd.pc = "returned"
       /\ ctxMap[lastEnd.key] # lastEnd.ctx
       /\ ctxMap[lastEnd.key] # 0 => heap[ctxMap[lastEnd.key]].stage # "analyzing"

====
